---- MODULE Spec2Model ----
(***************************************************************************)
(* Wire format and authentication of the ciphertext messages of            *)
(* rust/protocol/src/protocol.rs: SignalMessage, PreKeySignalMessage,      *)
(* SenderKeyMessage and SenderKeyDistributionMessage.                      *)
(*                                                                         *)
(* A byte is a number in 0..255 and a buffer is a sequence of bytes.  The  *)
(* constructors and parsers are operators on buffers, computed as the code *)
(* computes them; the state machine below drives them: a constructor       *)
(* builds a message, a parser is handed a buffer (the built bytes, a       *)
(* tampered copy, or a crafted buffer), a verifier checks the parsed       *)
(* message.                                                                *)
(***************************************************************************)
EXTENDS Integers, Sequences, FiniteSets, TLC

(***************************************************************************)
(* Values shared by every operator.                                        *)
(***************************************************************************)
None == <<>>
Some(v) == <<v>>
IsSome(o) == Len(o) = 1
Unwrap(o) == o[1]

Ok(v) == [ok |-> TRUE, val |-> v]
Err(kind, arg) == [ok |-> FALSE, err |-> [kind |-> kind, arg |-> arg]]
IsErr(r, kind) == ~r.ok /\ r.err.kind = kind
IsErrWith(r, kind, arg) == ~r.ok /\ r.err = [kind |-> kind, arg |-> arg]

Byte == 0..255

Pow2(n) == IF n = 0 THEN 1 ELSE IF n = 1 THEN 2 ELSE IF n = 2 THEN 4
           ELSE IF n = 3 THEN 8 ELSE IF n = 4 THEN 16 ELSE IF n = 5 THEN 32
           ELSE IF n = 6 THEN 64 ELSE 128

\* x with bit b (0 = least significant) inverted.
FlipBit(x, b) == IF (x \div Pow2(b)) % 2 = 1 THEN x - Pow2(b) ELSE x + Pow2(b)

\* buf with bit b of its i-th byte inverted.
FlipAt(buf, i, b) == [buf EXCEPT ![i] = FlipBit(buf[i], b)]

Repeat(x, n) == [i \in 1..n |-> x]

\* buf[from..to) in the code's zero-based half-open slices: bytes from+1..to.
Slice(buf, from, to) == SubSeq(buf, from + 1, to)

\* F applied to the value of v, with v evaluated once (a let that binds a
\* value where LET binds an expression).
Bind(v, F(_)) == CHOOSE r \in {F(x) : x \in {v}} : TRUE

(***************************************************************************)
(* The structured body encoding: protocol-buffers wire format, as the      *)
(* generated codec of proto::wire reads and writes it.                     *)
(*                                                                         *)
(* A varint is read byte by byte, seven bits each, least significant group *)
(* first, at most ten bytes.  Its value is kept as: val, the low 31 bits;  *)
(* hi, bit 31; over, whether any bit from 32 up is set.  A u32 is the pair *)
(* (val, hi) folded into one integer the way an i32 holds the same bits:   *)
(* val when hi is clear, val - 2^31 when it is set.                        *)
(***************************************************************************)
MaxVarintBytes == 10

Pow128(k) == IF k = 0 THEN 1 ELSE IF k = 1 THEN 128 ELSE IF k = 2 THEN 16384
             ELSE IF k = 3 THEN 2097152 ELSE 268435456

\* The low 31 bits of a u32 held as an i32.
Low31(n) == IF n >= 0 THEN n ELSE (n + 2147483647) + 1

RECURSIVE EncodeVarintNat(_)
EncodeVarintNat(n) ==
    IF n < 128 THEN <<n>> ELSE <<128 + (n % 128)>> \o EncodeVarintNat(n \div 128)

\* encode_varint of a u32.
EncodeVarint(n) ==
    IF n >= 0 THEN EncodeVarintNat(n)
    ELSE LET low == Low31(n)
         IN << 128 + (low % 128), 128 + ((low \div 128) % 128),
               128 + ((low \div 16384) % 128), 128 + ((low \div 2097152) % 128),
               8 + (low \div 268435456) >>

\* Reads a varint of buf[pos..end): count groups have been read into val.
RECURSIVE DecodeVarintFrom(_, _, _, _, _, _, _)
DecodeVarintFrom(buf, pos, end, count, val, hi, over) ==
    IF pos >= end \/ count >= MaxVarintBytes
    THEN [ok |-> FALSE, val |-> 0, hi |-> FALSE, over |-> FALSE, pos |-> pos]
    ELSE LET byte == buf[pos + 1]
             group == byte % 128
             val2 == IF count < 4 THEN val + group * Pow128(count)
                     ELSE IF count = 4 THEN val + (group % 8) * Pow128(4)
                     ELSE val
             hi2 == hi \/ (count = 4 /\ (group \div 8) % 2 = 1)
             \* the tenth byte carries bit 63 only; what lies above it is dropped
             over2 == over \/ (count = 4 /\ group >= 16)
                           \/ (count > 4 /\ count < 9 /\ group > 0)
                           \/ (count = 9 /\ group % 2 = 1)
         IN IF byte < 128
            THEN [ok |-> TRUE, val |-> val2, hi |-> hi2, over |-> over2, pos |-> pos + 1]
            ELSE DecodeVarintFrom(buf, pos + 1, end, count + 1, val2, hi2, over2)

DecodeVarint(buf, pos, end) == DecodeVarintFrom(buf, pos, end, 0, 0, FALSE, FALSE)

\* A decoded varint cast `as u32`.
AsU32(v) == IF v.hi THEN (v.val - 2147483647) - 1 ELSE v.val

\* Whether a decoded length exceeds the n bytes that remain.
LenExceeds(v, n) == v.over \/ v.hi \/ v.val > n

WT_VARINT == 0
WT_64BIT == 1
WT_LEN == 2
WT_START_GROUP == 3
WT_END_GROUP == 4
WT_32BIT == 5

\* decode_key: a varint that must fit 32 bits, with a wire type 0..5 in its
\* low three bits and a non-zero tag above them.
DecodeKey(buf, pos, end) ==
    Bind(DecodeVarint(buf, pos, end), LAMBDA v :
        LET tag == (v.val \div 8) + (IF v.hi THEN 268435456 ELSE 0)
        IN IF ~v.ok \/ v.over \/ v.val % 8 > WT_32BIT \/ tag = 0
           THEN [ok |-> FALSE, tag |-> 0, wt |-> 0, pos |-> v.pos]
           ELSE [ok |-> TRUE, tag |-> tag, wt |-> v.val % 8, pos |-> v.pos])

RecursionLimit == 100

\* skip_field: the position after an unknown field of wire type wt whose key
\* has been read, or failure.  A group is skipped field by field up to its
\* end-group key, which must carry the group's tag.
RECURSIVE SkipField(_, _, _, _, _, _)
RECURSIVE SkipGroup(_, _, _, _, _)
SkipField(buf, pos, end, wt, tag, depth) ==
    IF depth > RecursionLimit THEN [ok |-> FALSE, pos |-> pos]
    ELSE IF wt = WT_END_GROUP THEN [ok |-> FALSE, pos |-> pos]
    ELSE IF wt = WT_START_GROUP THEN SkipGroup(buf, pos, end, tag, depth)
    ELSE Bind(IF wt \in {WT_VARINT, WT_LEN} THEN DecodeVarint(buf, pos, end)
              ELSE [ok |-> TRUE, val |-> IF wt = WT_32BIT THEN 4 ELSE 8,
                    hi |-> FALSE, over |-> FALSE, pos |-> pos],
              LAMBDA v :
                  IF ~v.ok THEN [ok |-> FALSE, pos |-> v.pos]
                  ELSE IF wt = WT_VARINT THEN [ok |-> TRUE, pos |-> v.pos]
                  ELSE IF LenExceeds(v, end - v.pos) THEN [ok |-> FALSE, pos |-> v.pos]
                  ELSE [ok |-> TRUE, pos |-> v.pos + v.val])
SkipGroup(buf, pos, end, tag, depth) ==
    Bind(DecodeKey(buf, pos, end), LAMBDA k :
        IF ~k.ok THEN [ok |-> FALSE, pos |-> k.pos]
        ELSE IF k.wt = WT_END_GROUP THEN [ok |-> k.tag = tag, pos |-> k.pos]
        ELSE Bind(SkipField(buf, k.pos, end, k.wt, k.tag, depth + 1), LAMBDA s :
                 IF ~s.ok THEN s ELSE SkipGroup(buf, s.pos, end, tag, depth)))

(***************************************************************************)
(* A message schema maps each field number to the field's name and type;   *)
(* every field is optional in the encoding.  A structure maps each field   *)
(* name to None or Some(value).                                            *)
(***************************************************************************)
Field(name, ty) == [name |-> name, ty |-> ty]

FieldNames(schema) == {schema[t].name : t \in DOMAIN schema}

EmptyStructure(schema) == [n \in FieldNames(schema) |-> None]

\* merge_field for a field of the schema: the wire type must be the type's.
MergeField(buf, pos, end, f, wt, st) ==
    Bind(DecodeVarint(buf, pos, end), LAMBDA v :
        IF f.ty = "uint32"
        THEN IF wt # WT_VARINT \/ ~v.ok THEN [ok |-> FALSE, pos |-> pos, st |-> st]
             ELSE [ok |-> TRUE, pos |-> v.pos,
                   st |-> [st EXCEPT ![f.name] = Some(AsU32(v))]]
        ELSE IF wt # WT_LEN \/ ~v.ok THEN [ok |-> FALSE, pos |-> pos, st |-> st]
             ELSE IF LenExceeds(v, end - v.pos) THEN [ok |-> FALSE, pos |-> pos, st |-> st]
             ELSE [ok |-> TRUE, pos |-> v.pos + v.val,
                   st |-> [st EXCEPT ![f.name] = Some(Slice(buf, v.pos, v.pos + v.val))]])

\* Message::decode over buf[pos..end): fields are merged in the order they
\* come, a repeated field keeps its last value, unknown fields are skipped.
RECURSIVE DecodeFields(_, _, _, _, _)
DecodeFields(schema, buf, pos, end, st) ==
    IF pos >= end THEN Ok(st)
    ELSE Bind(DecodeKey(buf, pos, end), LAMBDA k :
        IF ~k.ok THEN Err("ProtobufDecodingError", 0)
        ELSE IF k.tag \in DOMAIN schema
        THEN Bind(MergeField(buf, k.pos, end, schema[k.tag], k.wt, st), LAMBDA m :
                 IF ~m.ok THEN Err("ProtobufDecodingError", 0)
                 ELSE DecodeFields(schema, buf, m.pos, end, m.st))
        ELSE Bind(SkipField(buf, k.pos, end, k.wt, k.tag, 0), LAMBDA s :
                 IF ~s.ok THEN Err("ProtobufDecodingError", 0)
                 ELSE DecodeFields(schema, buf, s.pos, end, st)))

ProtoDecode(schema, buf) ==
    Bind(buf, LAMBDA b : DecodeFields(schema, b, 0, Len(b), EmptyStructure(schema)))

EncodeField(tag, f, o) ==
    IF ~IsSome(o) THEN <<>>
    ELSE IF f.ty = "uint32"
    THEN EncodeVarint(tag * 8 + WT_VARINT) \o EncodeVarint(Unwrap(o))
    ELSE EncodeVarint(tag * 8 + WT_LEN) \o EncodeVarint(Len(Unwrap(o))) \o Unwrap(o)

\* Message::encode: the present fields in ascending field number.
RECURSIVE EncodeFrom(_, _, _)
EncodeFrom(schema, st, tags) ==
    IF tags = {} THEN <<>>
    ELSE Bind(CHOOSE x \in tags : \A y \in tags : x <= y, LAMBDA t :
             EncodeField(t, schema[t], st[schema[t].name])
             \o EncodeFrom(schema, st, tags \ {t}))

ProtoEncode(schema, st) == Bind(st, LAMBDA m : EncodeFrom(schema, m, DOMAIN schema))

SignalMessageSchema ==
    (1 :> Field("ratchet_key", "bytes")) @@ (2 :> Field("counter", "uint32"))
    @@ (3 :> Field("previous_counter", "uint32")) @@ (4 :> Field("ciphertext", "bytes"))

PreKeySignalMessageSchema ==
    (1 :> Field("pre_key_id", "uint32")) @@ (2 :> Field("base_key", "bytes"))
    @@ (3 :> Field("identity_key", "bytes")) @@ (4 :> Field("message", "bytes"))
    @@ (5 :> Field("registration_id", "uint32"))
    @@ (6 :> Field("signed_pre_key_id", "uint32"))

SenderKeyMessageSchema ==
    (1 :> Field("distribution_uuid", "bytes")) @@ (2 :> Field("chain_id", "uint32"))
    @@ (3 :> Field("iteration", "uint32")) @@ (4 :> Field("ciphertext", "bytes"))

SenderKeyDistributionMessageSchema ==
    (1 :> Field("distribution_uuid", "bytes")) @@ (2 :> Field("chain_id", "uint32"))
    @@ (3 :> Field("iteration", "uint32")) @@ (4 :> Field("chain_key", "bytes"))
    @@ (5 :> Field("signing_key", "bytes"))

(***************************************************************************)
(* Collaborators: curve keys, the UUID, HMAC-SHA256 and the signature.     *)
(*                                                                         *)
(* A public key is its 32 key bytes and serializes as the type byte 0x05   *)
(* followed by them.  The hash behind the MAC and the signature is a       *)
(* stand-in: a position-weighted sum modulo a prime, which changes when    *)
(* one byte of its input changes (the property of HMAC and of the          *)
(* signature scheme the tamper claims lean on), spread over the width of   *)
(* the real output.                                                        *)
(***************************************************************************)
DJB_TYPE == 5
KEY_LENGTH == 32
UUID_LENGTH == 16
SIGNATURE_LENGTH == 64

PublicKey_serialize(key) == <<DJB_TYPE>> \o key

\* PublicKey::try_from: the type byte, then at least 32 key bytes; what
\* follows them is ignored.
PublicKey_try_from(value) ==
    IF Len(value) = 0 THEN Err("NoKeyTypeIdentifier", 0)
    ELSE IF value[1] # DJB_TYPE THEN Err("BadKeyType", value[1])
    ELSE IF Len(value) < KEY_LENGTH + 1 THEN Err("BadKeyLength", Len(value))
    ELSE Ok(Slice(value, 1, KEY_LENGTH + 1))

\* Uuid::from_slice(bytes).ok()
Uuid_from_slice(bytes) == IF Len(bytes) = UUID_LENGTH THEN Some(bytes) ELSE None

DigestModulus == 32749

\* The sum over i in lo..hi of (data[i] + 1) * i, modulo the prime, by halves.
RECURSIVE DigestRange(_, _, _)
DigestRange(data, lo, hi) ==
    IF lo > hi THEN 0
    ELSE IF lo = hi THEN ((data[lo] + 1) * lo) % DigestModulus
    ELSE LET mid == (lo + hi) \div 2
         IN (DigestRange(data, lo, mid) + DigestRange(data, mid + 1, hi)) % DigestModulus

Digest(data) ==
    Bind(data, LAMBDA d : (DigestRange(d, 1, Len(d)) + Len(d)) % DigestModulus)

\* The digest written over n output bytes.
Expand(h, n) ==
    [i \in 1..n |-> IF i = 1 THEN h \div 256 ELSE IF i = 2 THEN h % 256
                    ELSE (h + 7 * i) % 256]

\* Hmac::<Sha256>: keyed by key, fed with data, 32 bytes out.
HmacSha256(key, data) == Expand(Digest(key \o data), 32)

\* The public key of a private key.
PrivateKey_public_key(private_key) == [i \in 1..KEY_LENGTH |-> (private_key[i] + 64) % 256]

\* PrivateKey::calculate_signature: a nonce part drawn from the randomness
\* and a part binding nonce, public key and message.
calculate_signature(private_key, message, rnd) ==
    Bind(Expand(Digest(<<rnd>> \o private_key), 32), LAMBDA nonce :
        nonce \o Expand(Digest(nonce \o PrivateKey_public_key(private_key) \o message), 32))

\* The signature check of a public key over message and signature.
PublicKey_verify_signature(public_key, message, signature) ==
    Slice(signature, 32, 64)
        = Expand(Digest(Slice(signature, 0, 32) \o public_key \o message), 32)

(***************************************************************************)
(* protocol.rs                                                             *)
(***************************************************************************)
CIPHERTEXT_MESSAGE_CURRENT_VERSION == 3
Version2 == 2
Version3 == 3
MessageVersion == {Version2, Version3}

\* MessageVersion::try_from(u8)
MessageVersion_try_from(value) ==
    IF value \in MessageVersion THEN Ok(value)
    ELSE Err("UnrecognizedMessageVersion", value)

\* a | b on numbers below 2^bits.
RECURSIVE BitOr(_, _, _)
BitOr(a, b, bits) ==
    IF bits = 0 THEN 0
    ELSE (IF a % 2 = 1 \/ b % 2 = 1 THEN 1 ELSE 0)
         + 2 * BitOr(a \div 2, b \div 2, bits - 1)

\* The packing with the logical version in both nibbles.
VersionByte_same_nibbles(version, low) ==
    BitOr(((version % 16) * 16) % 256, version % 16, 8)

\* ((version & 0xF) << 4) | low, in a u8.
VersionByte(version, low) == BitOr(((version % 16) * 16) % 256, low, 8)

\* value[0] >> 4
VersionNibble(byte) == byte \div 16

MAC_LENGTH == 8
MAC_KEY_LENGTH == 32

Panic == Err("Panic", 0)

\* A slice value[from..to] the program cannot take: it stops there.
OutOfRange(value, from, to) == from > to \/ to > Len(value)

\* compute_mac rejecting only keys shorter than 32 bytes.
compute_mac_min_length(sender_identity_key, receiver_identity_key, mac_key, message) ==
    IF Len(mac_key) < MAC_KEY_LENGTH THEN Err("InvalidMacKeyLength", Len(mac_key))
    ELSE Ok(Slice(HmacSha256(mac_key,
                             PublicKey_serialize(sender_identity_key)
                             \o PublicKey_serialize(receiver_identity_key)
                             \o message),
                  0, MAC_LENGTH))

\* SignalMessage::compute_mac
compute_mac(sender_identity_key, receiver_identity_key, mac_key, message) ==
    IF Len(mac_key) # MAC_KEY_LENGTH THEN Err("InvalidMacKeyLength", Len(mac_key))
    ELSE Ok(Slice(HmacSha256(mac_key,
                             PublicKey_serialize(sender_identity_key)
                             \o PublicKey_serialize(receiver_identity_key)
                             \o message),
                  0, MAC_LENGTH))

\* SignalMessage::new
SignalMessage_new(message_version, mac_key, sender_ratchet_key, counter, previous_counter, ciphertext, sender_identity_key, receiver_identity_key) ==
    LET message == [ratchet_key |-> Some(PublicKey_serialize(sender_ratchet_key)),
                    counter |-> Some(counter),
                    previous_counter |-> Some(previous_counter),
                    ciphertext |-> Some(ciphertext)]
    IN Bind(<<VersionByte(message_version, CIPHERTEXT_MESSAGE_CURRENT_VERSION)>>
            \o ProtoEncode(SignalMessageSchema, message), LAMBDA head :
       Bind(compute_mac(sender_identity_key, receiver_identity_key, mac_key, head),
            LAMBDA mac :
           IF ~mac.ok THEN mac
           ELSE Ok([message_version |-> message_version,
                    sender_ratchet_key |-> sender_ratchet_key,
                    counter |-> counter,
                    previous_counter |-> previous_counter,
                    ciphertext |-> ciphertext,
                    serialized |-> head \o mac.val])))

\* verify_mac comparing all but the last byte of the two MACs.
verify_mac_seven_bytes(self, sender_identity_key, receiver_identity_key, mac_key) ==
    IF Len(self.serialized) < MAC_LENGTH THEN Panic
    ELSE LET n == Len(self.serialized)
             our_mac == compute_mac(sender_identity_key, receiver_identity_key, mac_key,
                                    Slice(self.serialized, 0, n - MAC_LENGTH))
             their_mac == Slice(self.serialized, n - MAC_LENGTH, n)
         IN Bind(our_mac, LAMBDA mac :
                IF ~mac.ok THEN mac
                ELSE Ok(Slice(mac.val, 0, MAC_LENGTH - 1)
                        = Slice(their_mac, 0, MAC_LENGTH - 1)))

\* SignalMessage::verify_mac
verify_mac(self, sender_identity_key, receiver_identity_key, mac_key) ==
    IF Len(self.serialized) < MAC_LENGTH THEN Panic
    ELSE LET n == Len(self.serialized)
             our_mac == compute_mac(sender_identity_key, receiver_identity_key, mac_key,
                                    Slice(self.serialized, 0, n - MAC_LENGTH))
             their_mac == Slice(self.serialized, n - MAC_LENGTH, n)
         IN Bind(our_mac, LAMBDA mac : IF ~mac.ok THEN mac ELSE Ok(mac.val = their_mac))

\* The version checks without the one that rejects older versions.
VersionCheck_accepting_legacy(message_version) ==
    IF message_version > CIPHERTEXT_MESSAGE_CURRENT_VERSION
    THEN Err("UnrecognizedCiphertextVersion", message_version)
    ELSE Ok(message_version)

\* The version checks every parser makes on the first byte.
VersionCheck(message_version) ==
    IF message_version < CIPHERTEXT_MESSAGE_CURRENT_VERSION
    THEN Err("LegacyCiphertextVersion", message_version)
    ELSE IF message_version > CIPHERTEXT_MESSAGE_CURRENT_VERSION
    THEN Err("UnrecognizedCiphertextVersion", message_version)
    ELSE Ok(message_version)

InvalidProtobufEncoding == Err("InvalidProtobufEncoding", 0)

\* The body keeping, in place of the input, a re-encoding of the parsed fields.
SignalMessage_try_from_body_reencoded(value) ==
    IF OutOfRange(value, 1, Len(value) - MAC_LENGTH) THEN Panic ELSE
    Bind(ProtoDecode(SignalMessageSchema, Slice(value, 1, Len(value) - MAC_LENGTH)),
              LAMBDA decoded :
        IF ~decoded.ok THEN decoded
        ELSE LET proto_structure == decoded.val
                 sender_ratchet_key ==
                     PublicKey_try_from(Unwrap(proto_structure.ratchet_key))
                 message_version == MessageVersion_try_from(VersionNibble(value[1]))
                 previous_counter ==
                     IF IsSome(proto_structure.previous_counter)
                     THEN Unwrap(proto_structure.previous_counter) ELSE 0
             IN IF ~IsSome(proto_structure.ratchet_key) THEN InvalidProtobufEncoding
                ELSE IF ~sender_ratchet_key.ok THEN sender_ratchet_key
                ELSE IF ~IsSome(proto_structure.counter) THEN InvalidProtobufEncoding
                ELSE IF ~IsSome(proto_structure.ciphertext) THEN InvalidProtobufEncoding
                ELSE IF ~message_version.ok THEN message_version
                ELSE Ok([message_version |-> message_version.val,
                         sender_ratchet_key |-> sender_ratchet_key.val,
                         counter |-> Unwrap(proto_structure.counter),
                         previous_counter |-> previous_counter,
                         ciphertext |-> Unwrap(proto_structure.ciphertext),
                         serialized |->
                             <<value[1]>>
                             \o ProtoEncode(SignalMessageSchema,
                                    [ratchet_key |->
                                         Some(PublicKey_serialize(sender_ratchet_key.val)),
                                     counter |-> proto_structure.counter,
                                     previous_counter |-> Some(previous_counter),
                                     ciphertext |-> proto_structure.ciphertext])
                             \o Slice(value, Len(value) - MAC_LENGTH, Len(value))]))

\* impl TryFrom<&[u8]> for SignalMessage: the body, once length and version passed
SignalMessage_try_from_body(value) ==
    IF OutOfRange(value, 1, Len(value) - MAC_LENGTH) THEN Panic ELSE
    Bind(ProtoDecode(SignalMessageSchema, Slice(value, 1, Len(value) - MAC_LENGTH)),
              LAMBDA decoded :
        IF ~decoded.ok THEN decoded
        ELSE LET proto_structure == decoded.val
                 sender_ratchet_key ==
                     PublicKey_try_from(Unwrap(proto_structure.ratchet_key))
                 message_version == MessageVersion_try_from(VersionNibble(value[1]))
             IN IF ~IsSome(proto_structure.ratchet_key) THEN InvalidProtobufEncoding
                ELSE IF ~sender_ratchet_key.ok THEN sender_ratchet_key
                ELSE IF ~IsSome(proto_structure.counter) THEN InvalidProtobufEncoding
                ELSE IF ~IsSome(proto_structure.ciphertext) THEN InvalidProtobufEncoding
                ELSE IF ~message_version.ok THEN message_version
                ELSE Ok([message_version |-> message_version.val,
                         sender_ratchet_key |-> sender_ratchet_key.val,
                         counter |-> Unwrap(proto_structure.counter),
                         previous_counter |->
                             IF IsSome(proto_structure.previous_counter)
                             THEN Unwrap(proto_structure.previous_counter) ELSE 0,
                         ciphertext |-> Unwrap(proto_structure.ciphertext),
                         serialized |-> value]))

\* The parser with the version byte left out of the minimum length.
SignalMessage_try_from_short_min(value) ==
    IF Len(value) < MAC_LENGTH THEN Err("CiphertextMessageTooShort", Len(value))
    ELSE IF ~VersionCheck(VersionNibble(value[1])).ok
    THEN VersionCheck(VersionNibble(value[1]))
    ELSE SignalMessage_try_from_body(value)

\* impl TryFrom<&[u8]> for SignalMessage
SignalMessage_try_from(value) ==
    IF Len(value) < MAC_LENGTH + 1 THEN Err("CiphertextMessageTooShort", Len(value))
    ELSE IF ~VersionCheck(VersionNibble(value[1])).ok
    THEN VersionCheck(VersionNibble(value[1]))
    ELSE SignalMessage_try_from_body(value)

\* PreKeySignalMessage::new
PreKeySignalMessage_new(message_version, registration_id, pre_key_id, signed_pre_key_id, base_key, identity_key, message) ==
    LET proto_message == [registration_id |-> Some(registration_id),
                          pre_key_id |-> pre_key_id,
                          signed_pre_key_id |-> Some(signed_pre_key_id),
                          base_key |-> Some(PublicKey_serialize(base_key)),
                          identity_key |-> Some(PublicKey_serialize(identity_key)),
                          message |-> Some(message.serialized)]
    IN Ok([message_version |-> message_version,
           registration_id |-> registration_id,
           pre_key_id |-> pre_key_id,
           signed_pre_key_id |-> signed_pre_key_id,
           base_key |-> base_key,
           identity_key |-> identity_key,
           message |-> message,
           serialized |->
               <<VersionByte(message_version, CIPHERTEXT_MESSAGE_CURRENT_VERSION)>>
               \o ProtoEncode(PreKeySignalMessageSchema, proto_message)])

\* The body answering InvalidProtobufEncoding for inner bytes that do not parse.
PreKeySignalMessage_try_from_body_inner_hidden(value) ==
    IF OutOfRange(value, 1, Len(value)) THEN Panic ELSE
    Bind(ProtoDecode(PreKeySignalMessageSchema, Slice(value, 1, Len(value))),
              LAMBDA decoded :
        IF ~decoded.ok THEN decoded
        ELSE LET proto_structure == decoded.val
                 base_key == PublicKey_try_from(Unwrap(proto_structure.base_key))
                 message_version == MessageVersion_try_from(VersionNibble(value[1]))
                 identity_key == PublicKey_try_from(Unwrap(proto_structure.identity_key))
             IN IF ~IsSome(proto_structure.base_key) THEN InvalidProtobufEncoding
                ELSE IF ~IsSome(proto_structure.identity_key) THEN InvalidProtobufEncoding
                ELSE IF ~IsSome(proto_structure.message) THEN InvalidProtobufEncoding
                ELSE IF ~IsSome(proto_structure.signed_pre_key_id)
                     THEN InvalidProtobufEncoding
                ELSE IF ~base_key.ok THEN base_key
                ELSE IF ~message_version.ok THEN message_version
                ELSE IF ~identity_key.ok THEN identity_key
                ELSE Bind(SignalMessage_try_from(Unwrap(proto_structure.message)),
                          LAMBDA message :
                    IF ~message.ok THEN InvalidProtobufEncoding
                    ELSE Ok([message_version |-> message_version.val,
                             registration_id |->
                                 IF IsSome(proto_structure.registration_id)
                                 THEN Unwrap(proto_structure.registration_id) ELSE 0,
                             pre_key_id |-> proto_structure.pre_key_id,
                             signed_pre_key_id |->
                                 Unwrap(proto_structure.signed_pre_key_id),
                             base_key |-> base_key.val,
                             identity_key |-> identity_key.val,
                             message |-> message.val,
                             serialized |-> value])))

\* impl TryFrom<&[u8]> for PreKeySignalMessage: the body, once length and version passed
PreKeySignalMessage_try_from_body(value) ==
    IF OutOfRange(value, 1, Len(value)) THEN Panic ELSE
    Bind(ProtoDecode(PreKeySignalMessageSchema, Slice(value, 1, Len(value))),
              LAMBDA decoded :
        IF ~decoded.ok THEN decoded
        ELSE LET proto_structure == decoded.val
                 base_key == PublicKey_try_from(Unwrap(proto_structure.base_key))
                 message_version == MessageVersion_try_from(VersionNibble(value[1]))
                 identity_key == PublicKey_try_from(Unwrap(proto_structure.identity_key))
             IN IF ~IsSome(proto_structure.base_key) THEN InvalidProtobufEncoding
                ELSE IF ~IsSome(proto_structure.identity_key) THEN InvalidProtobufEncoding
                ELSE IF ~IsSome(proto_structure.message) THEN InvalidProtobufEncoding
                ELSE IF ~IsSome(proto_structure.signed_pre_key_id)
                     THEN InvalidProtobufEncoding
                ELSE IF ~base_key.ok THEN base_key
                ELSE IF ~message_version.ok THEN message_version
                ELSE IF ~identity_key.ok THEN identity_key
                ELSE Bind(SignalMessage_try_from(Unwrap(proto_structure.message)),
                          LAMBDA message :
                    IF ~message.ok THEN message
                    ELSE Ok([message_version |-> message_version.val,
                             registration_id |->
                                 IF IsSome(proto_structure.registration_id)
                                 THEN Unwrap(proto_structure.registration_id) ELSE 0,
                             pre_key_id |-> proto_structure.pre_key_id,
                             signed_pre_key_id |->
                                 Unwrap(proto_structure.signed_pre_key_id),
                             base_key |-> base_key.val,
                             identity_key |-> identity_key.val,
                             message |-> message.val,
                             serialized |-> value])))

\* impl TryFrom<&[u8]> for PreKeySignalMessage
PreKeySignalMessage_try_from(value) ==
    IF Len(value) = 0 THEN Err("CiphertextMessageTooShort", Len(value))
    ELSE IF ~VersionCheck(VersionNibble(value[1])).ok
    THEN VersionCheck(VersionNibble(value[1]))
    ELSE PreKeySignalMessage_try_from_body(value)

\* SenderKeyMessage::new writing chain_id and iteration into each other's field.
SenderKeyMessage_new_swapped(distribution_id, chain_id, iteration, ciphertext, csprng, signature_key) ==
    LET proto_message == [distribution_uuid |-> Some(distribution_id),
                          chain_id |-> Some(iteration),
                          iteration |-> Some(chain_id),
                          ciphertext |-> Some(ciphertext)]
    IN Bind(<<VersionByte(CIPHERTEXT_MESSAGE_CURRENT_VERSION,
                          CIPHERTEXT_MESSAGE_CURRENT_VERSION)>>
            \o ProtoEncode(SenderKeyMessageSchema, proto_message), LAMBDA head :
           Ok([message_version |-> Version3,
               distribution_id |-> distribution_id,
               chain_id |-> chain_id,
               iteration |-> iteration,
               ciphertext |-> ciphertext,
               serialized |-> head \o calculate_signature(signature_key, head, csprng)]))

\* SenderKeyMessage::new
SenderKeyMessage_new(distribution_id, chain_id, iteration, ciphertext, csprng, signature_key) ==
    LET proto_message == [distribution_uuid |-> Some(distribution_id),
                          chain_id |-> Some(chain_id),
                          iteration |-> Some(iteration),
                          ciphertext |-> Some(ciphertext)]
    IN Bind(<<VersionByte(CIPHERTEXT_MESSAGE_CURRENT_VERSION,
                          CIPHERTEXT_MESSAGE_CURRENT_VERSION)>>
            \o ProtoEncode(SenderKeyMessageSchema, proto_message), LAMBDA head :
           Ok([message_version |-> Version3,
               distribution_id |-> distribution_id,
               chain_id |-> chain_id,
               iteration |-> iteration,
               ciphertext |-> ciphertext,
               serialized |-> head \o calculate_signature(signature_key, head, csprng)]))

\* verify_signature checking the signature over the body without the version byte.
verify_signature_body_only(self, signature_key) ==
    IF Len(self.serialized) < SIGNATURE_LENGTH THEN Panic
    ELSE LET n == Len(self.serialized)
         IN IF PublicKey_verify_signature(
                   signature_key,
                   Slice(self.serialized, 1, n - SIGNATURE_LENGTH),
                   Slice(self.serialized, n - SIGNATURE_LENGTH, n))
            THEN Ok(<<>>)
            ELSE Err("SignatureValidationFailed", 0)

\* impl SignatureVerifiable for SenderKeyMessage
verify_signature(self, signature_key) ==
    IF Len(self.serialized) < SIGNATURE_LENGTH THEN Panic
    ELSE LET n == Len(self.serialized)
         IN IF PublicKey_verify_signature(
                   signature_key,
                   Slice(self.serialized, 0, n - SIGNATURE_LENGTH),
                   Slice(self.serialized, n - SIGNATURE_LENGTH, n))
            THEN Ok(<<>>)
            ELSE Err("SignatureValidationFailed", 0)

\* impl TryFrom<&[u8]> for SenderKeyMessage: the body, once length and version passed
SenderKeyMessage_try_from_body(value) ==
    IF OutOfRange(value, 1, Len(value) - SIGNATURE_LENGTH) THEN Panic ELSE
    Bind(ProtoDecode(SenderKeyMessageSchema,
                          Slice(value, 1, Len(value) - SIGNATURE_LENGTH)),
              LAMBDA decoded :
        IF ~decoded.ok THEN decoded
        ELSE LET proto_structure == decoded.val
                 distribution_id ==
                     IF IsSome(proto_structure.distribution_uuid)
                     THEN Uuid_from_slice(Unwrap(proto_structure.distribution_uuid))
                     ELSE None
                 message_version == MessageVersion_try_from(VersionNibble(value[1]))
             IN IF ~IsSome(distribution_id) THEN InvalidProtobufEncoding
                ELSE IF ~IsSome(proto_structure.chain_id) THEN InvalidProtobufEncoding
                ELSE IF ~IsSome(proto_structure.iteration) THEN InvalidProtobufEncoding
                ELSE IF ~IsSome(proto_structure.ciphertext) THEN InvalidProtobufEncoding
                ELSE IF ~message_version.ok THEN message_version
                ELSE Ok([message_version |-> message_version.val,
                         distribution_id |-> Unwrap(distribution_id),
                         chain_id |-> Unwrap(proto_structure.chain_id),
                         iteration |-> Unwrap(proto_structure.iteration),
                         ciphertext |-> Unwrap(proto_structure.ciphertext),
                         serialized |-> value]))

\* The parser with the version byte left out of the minimum length.
SenderKeyMessage_try_from_tag_only(value) ==
    IF Len(value) < SIGNATURE_LENGTH THEN Err("CiphertextMessageTooShort", Len(value))
    ELSE IF ~VersionCheck(VersionNibble(value[1])).ok
    THEN VersionCheck(VersionNibble(value[1]))
    ELSE SenderKeyMessage_try_from_body(value)

\* impl TryFrom<&[u8]> for SenderKeyMessage
SenderKeyMessage_try_from(value) ==
    IF Len(value) < 1 + SIGNATURE_LENGTH THEN Err("CiphertextMessageTooShort", Len(value))
    ELSE IF ~VersionCheck(VersionNibble(value[1])).ok
    THEN VersionCheck(VersionNibble(value[1]))
    ELSE SenderKeyMessage_try_from_body(value)

CHAIN_KEY_LENGTH == 32
SERIALIZED_KEY_LENGTH == 33
SKDM_MIN_LENGTH == 65

\* SenderKeyDistributionMessage::new writing the signing key without its type byte.
SenderKeyDistributionMessage_new_raw_key(distribution_id, chain_id, iteration, chain_key, signing_key) ==
    LET proto_message == [distribution_uuid |-> Some(distribution_id),
                          chain_id |-> Some(chain_id),
                          iteration |-> Some(iteration),
                          chain_key |-> Some(chain_key),
                          signing_key |-> Some(signing_key)]
        message_version == CIPHERTEXT_MESSAGE_CURRENT_VERSION
        version == MessageVersion_try_from(message_version)
    IN IF ~version.ok THEN version
       ELSE Ok([message_version |-> version.val,
                distribution_id |-> distribution_id,
                chain_id |-> chain_id,
                iteration |-> iteration,
                chain_key |-> chain_key,
                signing_key |-> signing_key,
                serialized |->
                    <<VersionByte(message_version, message_version)>>
                    \o ProtoEncode(SenderKeyDistributionMessageSchema, proto_message)])

\* SenderKeyDistributionMessage::new
SenderKeyDistributionMessage_new(distribution_id, chain_id, iteration, chain_key, signing_key) ==
    LET proto_message == [distribution_uuid |-> Some(distribution_id),
                          chain_id |-> Some(chain_id),
                          iteration |-> Some(iteration),
                          chain_key |-> Some(chain_key),
                          signing_key |-> Some(PublicKey_serialize(signing_key))]
        message_version == CIPHERTEXT_MESSAGE_CURRENT_VERSION
        version == MessageVersion_try_from(message_version)
    IN IF ~version.ok THEN version
       ELSE Ok([message_version |-> version.val,
                distribution_id |-> distribution_id,
                chain_id |-> chain_id,
                iteration |-> iteration,
                chain_key |-> chain_key,
                signing_key |-> signing_key,
                serialized |->
                    <<VersionByte(message_version, message_version)>>
                    \o ProtoEncode(SenderKeyDistributionMessageSchema, proto_message)])

\* The body decoding the signing key before it checks the two lengths.
SenderKeyDistributionMessage_try_from_body_key_first(value) ==
    IF OutOfRange(value, 1, Len(value)) THEN Panic ELSE
    Bind(ProtoDecode(SenderKeyDistributionMessageSchema, Slice(value, 1, Len(value))),
              LAMBDA decoded :
        IF ~decoded.ok THEN decoded
        ELSE LET proto_structure == decoded.val
                 distribution_id ==
                     IF IsSome(proto_structure.distribution_uuid)
                     THEN Uuid_from_slice(Unwrap(proto_structure.distribution_uuid))
                     ELSE None
                 chain_key == Unwrap(proto_structure.chain_key)
                 signing_key == PublicKey_try_from(Unwrap(proto_structure.signing_key))
                 message_version == MessageVersion_try_from(VersionNibble(value[1]))
             IN IF ~IsSome(distribution_id) THEN InvalidProtobufEncoding
                ELSE IF ~IsSome(proto_structure.chain_id) THEN InvalidProtobufEncoding
                ELSE IF ~IsSome(proto_structure.iteration) THEN InvalidProtobufEncoding
                ELSE IF ~IsSome(proto_structure.chain_key) THEN InvalidProtobufEncoding
                ELSE IF ~IsSome(proto_structure.signing_key) THEN InvalidProtobufEncoding
                ELSE IF ~signing_key.ok THEN signing_key
                ELSE IF Len(chain_key) # CHAIN_KEY_LENGTH
                        \/ Len(Unwrap(proto_structure.signing_key)) # SERIALIZED_KEY_LENGTH
                     THEN InvalidProtobufEncoding
                ELSE IF ~message_version.ok THEN message_version
                ELSE Ok([message_version |-> message_version.val,
                         distribution_id |-> Unwrap(distribution_id),
                         chain_id |-> Unwrap(proto_structure.chain_id),
                         iteration |-> Unwrap(proto_structure.iteration),
                         chain_key |-> chain_key,
                         signing_key |-> signing_key.val,
                         serialized |-> value]))

\* impl TryFrom<&[u8]> for SenderKeyDistributionMessage: the body, once length and version passed
SenderKeyDistributionMessage_try_from_body(value) ==
    IF OutOfRange(value, 1, Len(value)) THEN Panic ELSE
    Bind(ProtoDecode(SenderKeyDistributionMessageSchema, Slice(value, 1, Len(value))),
              LAMBDA decoded :
        IF ~decoded.ok THEN decoded
        ELSE LET proto_structure == decoded.val
                 distribution_id ==
                     IF IsSome(proto_structure.distribution_uuid)
                     THEN Uuid_from_slice(Unwrap(proto_structure.distribution_uuid))
                     ELSE None
                 chain_key == Unwrap(proto_structure.chain_key)
                 signing_key == PublicKey_try_from(Unwrap(proto_structure.signing_key))
                 message_version == MessageVersion_try_from(VersionNibble(value[1]))
             IN IF ~IsSome(distribution_id) THEN InvalidProtobufEncoding
                ELSE IF ~IsSome(proto_structure.chain_id) THEN InvalidProtobufEncoding
                ELSE IF ~IsSome(proto_structure.iteration) THEN InvalidProtobufEncoding
                ELSE IF ~IsSome(proto_structure.chain_key) THEN InvalidProtobufEncoding
                ELSE IF ~IsSome(proto_structure.signing_key) THEN InvalidProtobufEncoding
                ELSE IF Len(chain_key) # CHAIN_KEY_LENGTH
                        \/ Len(Unwrap(proto_structure.signing_key)) # SERIALIZED_KEY_LENGTH
                     THEN InvalidProtobufEncoding
                ELSE IF ~signing_key.ok THEN signing_key
                ELSE IF ~message_version.ok THEN message_version
                ELSE Ok([message_version |-> message_version.val,
                         distribution_id |-> Unwrap(distribution_id),
                         chain_id |-> Unwrap(proto_structure.chain_id),
                         iteration |-> Unwrap(proto_structure.iteration),
                         chain_key |-> chain_key,
                         signing_key |-> signing_key.val,
                         serialized |-> value]))

\* impl TryFrom<&[u8]> for SenderKeyDistributionMessage
SenderKeyDistributionMessage_try_from(value) ==
    IF Len(value) < SKDM_MIN_LENGTH THEN Err("CiphertextMessageTooShort", Len(value))
    ELSE IF ~VersionCheck(VersionNibble(value[1])).ok
    THEN VersionCheck(VersionNibble(value[1]))
    ELSE SenderKeyDistributionMessage_try_from_body(value)

(***************************************************************************)
(* Inputs.  Keys, UUIDs and ciphertexts are drawn from small families of   *)
(* byte strings, counters from a set that covers one-byte, two-byte and    *)
(* five-byte varints.                                                      *)
(***************************************************************************)
NumKeys == 2
MaxCiphertextLen == 2

KeySeeds == 1..NumKeys
KeyOf(n) == [i \in 1..KEY_LENGTH |-> (n * 16 + i) % 256]
Keys == {KeyOf(n) : n \in KeySeeds}

UuidOf(n) == [i \in 1..UUID_LENGTH |-> (n * 32 + i) % 256]
Uuids == {UuidOf(n) : n \in KeySeeds}

MacKeyOf(n, len) == [i \in 1..len |-> (n + 3 * i) % 256]
MacKeyLengths == {31, 32, 33}
MacKeys == {MacKeyOf(1, len) : len \in MacKeyLengths}

CiphertextOf(n) == [i \in 1..n |-> 200 + i]
Ciphertexts == {CiphertextOf(n) : n \in 0..MaxCiphertextLen}

CounterValues == {0, 1, 300, 2147483647}
SmallCounters == {0, 300}
OptionalIds == {None, Some(0), Some(5)}
Randomness == {0, 1}
\* Chain keys as callers may pass them: of 32 bytes, and one byte short.
ChainKeys == Keys \cup {Slice(KeyOf(1), 0, CHAIN_KEY_LENGTH - 1)}

(***************************************************************************)
(* The state: the position of the run (pc), the kind of message at hand,   *)
(* the arguments and the result of the constructor, the buffer handed to   *)
(* the parser with the way it was derived (origin) and the parser's        *)
(* result, the arguments and the result of the verifier.                   *)
(***************************************************************************)
VARIABLES pc, kind, args, built, origin, input, parsed, vargs, verified
vars == <<pc, kind, args, built, origin, input, parsed, vargs, verified>>

Nothing == Err("Nothing", 0)
NoArgs == [none |-> TRUE]
Exact == [how |-> "exact", byte |-> 0, bit |-> 0]

Init ==
    /\ pc = "start"
    /\ kind = "none"
    /\ args = NoArgs
    /\ built = Nothing
    /\ origin = NoArgs
    /\ input = <<>>
    /\ parsed = Nothing
    /\ vargs = NoArgs
    /\ verified = Nothing

Construct(k, a, result) ==
    /\ pc' = "built"
    /\ kind' = k
    /\ args' = a
    /\ built' = result
    /\ UNCHANGED <<origin, input, parsed, vargs, verified>>

NewSignalMessage(versions, mac_keys, ratchet_keys, counters, previous_counters, ciphertexts) ==
    /\ pc = "start"
    /\ \E message_version \in versions, mac_key \in mac_keys,
          sender_ratchet_key \in ratchet_keys, counter \in counters,
          previous_counter \in previous_counters, ciphertext \in ciphertexts,
          sender_identity_key \in Keys, receiver_identity_key \in Keys :
          Construct("Signal",
                    [message_version |-> message_version, mac_key |-> mac_key,
                     sender_identity_key |-> sender_identity_key,
                     receiver_identity_key |-> receiver_identity_key],
                    SignalMessage_new(message_version, mac_key, sender_ratchet_key,
                                      counter, previous_counter, ciphertext,
                                      sender_identity_key, receiver_identity_key))

\* The pre-key message wraps the pairwise message built before it.
NewPreKeySignalMessage ==
    /\ pc = "built"
    /\ kind = "Signal"
    /\ built.ok
    /\ \E message_version \in MessageVersion, registration_id \in SmallCounters,
          pre_key_id \in OptionalIds, signed_pre_key_id \in {97},
          base_key \in Keys, identity_key \in Keys :
          Construct("PreKey",
                    [message_version |-> message_version, inner |-> args],
                    PreKeySignalMessage_new(message_version, registration_id,
                                            pre_key_id, signed_pre_key_id, base_key,
                                            identity_key, built.val))

NewSenderKeyMessage(uuids, counters, ciphertexts) ==
    /\ pc = "start"
    /\ \E distribution_id \in uuids, chain_id \in counters, iteration \in counters,
          ciphertext \in ciphertexts, csprng \in Randomness, signature_key \in Keys :
          Construct("SenderKey",
                    [signature_key |-> signature_key],
                    SenderKeyMessage_new(distribution_id, chain_id, iteration,
                                         ciphertext, csprng, signature_key))

NewSenderKeyDistributionMessage ==
    /\ pc = "start"
    /\ \E distribution_id \in Uuids, chain_id \in CounterValues,
          iteration \in CounterValues, chain_key \in ChainKeys, signing_key \in Keys :
          Construct("Distribution",
                    [chain_key |-> chain_key],
                    SenderKeyDistributionMessage_new(distribution_id, chain_id,
                                                     iteration, chain_key, signing_key))

\* The parser of kind k on buffer value.
TryFrom(k, value) ==
    IF k = "Signal" THEN SignalMessage_try_from(value)
    ELSE IF k = "PreKey" THEN PreKeySignalMessage_try_from(value)
    ELSE IF k = "SenderKey" THEN SenderKeyMessage_try_from(value)
    ELSE SenderKeyDistributionMessage_try_from(value)

Parse(k, how, value) ==
    /\ pc' = "parsed"
    /\ kind' = k
    /\ origin' = how
    /\ input' = value
    /\ parsed' = TryFrom(k, value)
    /\ UNCHANGED <<args, built, vargs, verified>>

\* The receiver parses the bytes the sender built, as they are.
ParseSerialized ==
    /\ pc = "built"
    /\ built.ok
    /\ Parse(kind, Exact, built.val.serialized)

NextRoundTrip ==
    \/ NewSignalMessage(MessageVersion, MacKeys, Keys, CounterValues, SmallCounters,
                        Ciphertexts)
    \/ NewPreKeySignalMessage
    \/ NewSenderKeyMessage(Uuids, CounterValues, Ciphertexts)
    \/ NewSenderKeyDistributionMessage
    \/ ParseSerialized

SpecRoundTrip == Init /\ [][NextRoundTrip]_vars

(***************************************************************************)
(* Tampering and verification.  The receiver parses the built bytes with   *)
(* one bit inverted, or as they are, and verifies the parsed message; the  *)
(* sender's own message is verified too.                                   *)
(***************************************************************************)
ParseTampered ==
    /\ pc = "built"
    /\ built.ok
    /\ \E i \in 1..Len(built.val.serialized), b \in 0..7 :
          Parse(kind, [how |-> "flip", byte |-> i, bit |-> b],
                FlipAt(built.val.serialized, i, b))

\* A message can be used once it is built or parsed, and again after a use:
\* a later call is made on the message the earlier one was made on.
Operable == {"built", "parsed", "verified", "called"}
Target == IF pc \in {"built", "parsed"} THEN pc ELSE vargs.on

\* The message a call is made on: the parsed one, or the built one.
Subject == IF Target = "parsed" THEN parsed ELSE built

Verify(a, result) ==
    /\ pc' = "verified"
    /\ vargs' = a
    /\ verified' = result
    /\ UNCHANGED <<kind, args, built, origin, input, parsed>>

OtherMacKey == MacKeyOf(2, MAC_KEY_LENGTH)

VerifyMac ==
    /\ pc \in Operable
    /\ kind = "Signal"
    /\ Subject.ok
    /\ \E mac_key \in MacKeys \cup {OtherMacKey}, swap \in BOOLEAN :
          LET sender_identity_key ==
                  IF swap THEN args.receiver_identity_key ELSE args.sender_identity_key
              receiver_identity_key ==
                  IF swap THEN args.sender_identity_key ELSE args.receiver_identity_key
          IN Verify([on |-> Target, mac_key |-> mac_key,
                     sender_identity_key |-> sender_identity_key,
                     receiver_identity_key |-> receiver_identity_key],
                    verify_mac(Subject.val, sender_identity_key, receiver_identity_key,
                               mac_key))

VerifySignature ==
    /\ pc \in Operable
    /\ kind = "SenderKey"
    /\ Subject.ok
    /\ \E signature_key \in Keys :
          Verify([on |-> Target, signature_key |-> PrivateKey_public_key(signature_key)],
                 verify_signature(Subject.val, PrivateKey_public_key(signature_key)))

NextAuth ==
    \/ NewSignalMessage({Version3}, MacKeys, {KeyOf(1)}, {300}, {300},
                        {CiphertextOf(MaxCiphertextLen)})
    \/ NewSenderKeyMessage({UuidOf(1)}, {300}, {CiphertextOf(MaxCiphertextLen)})
    \/ ParseSerialized
    \/ ParseTampered
    \/ VerifyMac
    \/ VerifySignature

SpecAuth == Init /\ [][NextAuth]_vars

(***************************************************************************)
(* Buffers from the network.  A framed buffer is a well-formed message of  *)
(* some kind, or bytes that decode as nothing, with its first byte         *)
(* replaced and cut to a length; any parser may be handed it.  A crafted   *)
(* buffer carries the current version and the encoding of a structure in   *)
(* which each field is absent, well-formed or malformed, followed by an    *)
(* optional unknown field and the kind's trailer.                          *)
(***************************************************************************)
Kinds == {"Signal", "PreKey", "SenderKey", "Distribution"}

SampleSignal ==
    SignalMessage_new(Version3, MacKeyOf(1, MAC_KEY_LENGTH), KeyOf(1), 300, 41,
                      CiphertextOf(2), KeyOf(1), KeyOf(2)).val
LegacySignal ==
    SignalMessage_new(Version2, MacKeyOf(1, MAC_KEY_LENGTH), KeyOf(1), 300, 41,
                      CiphertextOf(2), KeyOf(1), KeyOf(2)).val
SamplePreKey ==
    PreKeySignalMessage_new(Version3, 365, Some(5), 97, KeyOf(1), KeyOf(2),
                            SampleSignal).val
SampleSenderKey ==
    SenderKeyMessage_new(UuidOf(1), 300, 7, CiphertextOf(2), 0, KeyOf(1)).val
SampleDistribution ==
    SenderKeyDistributionMessage_new(UuidOf(1), 42, 7, KeyOf(2), KeyOf(1)).val

Garbage == Repeat(255, 70)

FrameBases ==
    {SampleSignal.serialized, SamplePreKey.serialized, SampleSenderKey.serialized,
     SampleDistribution.serialized, Garbage}
VersionNibbles == 0..15
LowNibbles == {0, CIPHERTEXT_MESSAGE_CURRENT_VERSION}
FrameLengths == {0, 1, 8, 9, 64, 65}

ParseFramed ==
    /\ pc = "start"
    /\ \E k \in Kinds, base \in FrameBases, nibble \in VersionNibbles,
          low \in LowNibbles :
          \E n \in {m \in FrameLengths : m <= Len(base)} \cup {Len(base)} :
              Parse(k, [how |-> "framed", nibble |-> nibble, n |-> n],
                    Slice(<<nibble * 16 + low>> \o Tail(base), 0, n))

GoodKey == PublicKey_serialize(KeyOf(1))
BadTypeKey == <<6>> \o KeyOf(1)
ShortKey == <<DJB_TYPE, 1, 2>>
LongKey == PublicKey_serialize(KeyOf(1)) \o <<9>>

CraftedStructures(k) ==
    IF k = "Signal"
    THEN [ratchet_key : {None, Some(GoodKey), Some(BadTypeKey), Some(ShortKey)},
          counter : {None, Some(300)},
          previous_counter : {None, Some(41)},
          ciphertext : {None, Some(CiphertextOf(2))}]
    ELSE IF k = "PreKey"
    THEN [registration_id : {None, Some(365)},
          pre_key_id : {None, Some(5)},
          signed_pre_key_id : {None, Some(97)},
          base_key : {None, Some(GoodKey), Some(BadTypeKey)},
          identity_key : {None, Some(GoodKey), Some(ShortKey)},
          message : {None, Some(SampleSignal.serialized), Some(<<51, 1, 2>>),
                     Some(LegacySignal.serialized)}]
    ELSE IF k = "SenderKey"
    THEN [distribution_uuid : {None, Some(UuidOf(1)), Some(Tail(UuidOf(1)))},
          chain_id : {None, Some(300)},
          iteration : {None, Some(7)},
          ciphertext : {None, Some(CiphertextOf(2))}]
    ELSE [distribution_uuid : {None, Some(UuidOf(1)), Some(Tail(UuidOf(1)))},
          chain_id : {None, Some(300)},
          iteration : {None, Some(7)},
          chain_key : {None, Some(KeyOf(2)), Some(Tail(KeyOf(2)))},
          signing_key : {None, Some(GoodKey), Some(Tail(GoodKey)), Some(BadTypeKey),
                         Some(LongKey)}]

\* The distribution structure with every field in its valid form.
SampleDistributionStructure ==
    [distribution_uuid |-> Some(UuidOf(1)), chain_id |-> Some(300),
     iteration |-> Some(7), chain_key |-> Some(KeyOf(2)),
     signing_key |-> Some(GoodKey)]

SchemaOf(k) ==
    IF k = "Signal" THEN SignalMessageSchema
    ELSE IF k = "PreKey" THEN PreKeySignalMessageSchema
    ELSE IF k = "SenderKey" THEN SenderKeyMessageSchema
    ELSE SenderKeyDistributionMessageSchema

\* The bytes after the body: the MAC or the signature, of any value.
TrailerOf(k) ==
    IF k = "Signal" THEN Repeat(0, MAC_LENGTH)
    ELSE IF k = "SenderKey" THEN Repeat(0, SIGNATURE_LENGTH)
    ELSE <<>>

\* An unknown field (number 15, length-delimited) of the given payload length.
UnknownField(n) == <<122, n>> \o Repeat(0, n)
Paddings == {<<>>, UnknownField(64)}

ParseCrafted ==
    /\ pc = "start"
    /\ \E k \in Kinds, padding \in Paddings :
          \E st \in CraftedStructures(k) :
              Parse(k, [how |-> "crafted", st |-> st, padded |-> padding # <<>>],
                    <<VersionByte(CIPHERTEXT_MESSAGE_CURRENT_VERSION,
                                  CIPHERTEXT_MESSAGE_CURRENT_VERSION)>>
                    \o ProtoEncode(SchemaOf(k), st) \o padding \o TrailerOf(k))

NextParse ==
    \/ ParseFramed
    \/ ParseCrafted

SpecParse == Init /\ [][NextParse]_vars

(***************************************************************************)
(* The union of the three encrypted kinds.  A message of one of the three  *)
(* kinds, built or parsed, is put into the variant of its type and asked   *)
(* for its discriminant and its bytes.                                     *)
(***************************************************************************)
\* enum CiphertextMessageType
Whisper == 2
PreKey == 3
SenderKey == 7

\* The accessor serialized() of the three message types.
serialized(self) == self.serialized

\* The variant of enum CiphertextMessage that holds a message of kind k.
CiphertextMessage(k, x) ==
    [variant |-> IF k = "Signal" THEN "SignalMessage"
                 ELSE IF k = "PreKey" THEN "PreKeySignalMessage"
                 ELSE "SenderKeyMessage",
     x |-> x]

\* CiphertextMessage::message_type with Whisper and PreKey exchanged.
message_type_exchanged(self) ==
    IF self.variant = "SignalMessage" THEN PreKey
    ELSE IF self.variant = "PreKeySignalMessage" THEN Whisper
    ELSE SenderKey

\* CiphertextMessage::message_type
message_type(self) ==
    IF self.variant = "SignalMessage" THEN Whisper
    ELSE IF self.variant = "PreKeySignalMessage" THEN PreKey
    ELSE SenderKey

\* CiphertextMessage::serialize
serialize(self) ==
    IF self.variant = "SignalMessage" THEN serialized(self.x)
    ELSE IF self.variant = "PreKeySignalMessage" THEN serialized(self.x)
    ELSE serialized(self.x)

\* A call on the message that is not a verification: its receiver and
\* arguments go to vargs, what it returns to verified.
Call(a, result) ==
    /\ pc' = "called"
    /\ vargs' = a
    /\ verified' = result
    /\ UNCHANGED <<kind, args, built, origin, input, parsed>>

UnionKinds == {"Signal", "PreKey", "SenderKey"}

UseCiphertextMessage ==
    /\ pc \in Operable
    /\ kind \in UnionKinds
    /\ Subject.ok
    /\ Call([on |-> Target, call |-> "CiphertextMessage",
             self |-> CiphertextMessage(kind, Subject.val)],
            Ok([message_type |-> message_type(CiphertextMessage(kind, Subject.val)),
                serialize |-> serialize(CiphertextMessage(kind, Subject.val))]))

NextUnion ==
    \/ NewSignalMessage(MessageVersion, MacKeys, Keys, {300}, {0}, Ciphertexts)
    \/ NewPreKeySignalMessage
    \/ NewSenderKeyMessage(Uuids, {300}, Ciphertexts)
    \/ ParseSerialized
    \/ UseCiphertextMessage

SpecUnion == Init /\ [][NextUnion]_vars

(***************************************************************************)
(* Stored bytes.  A peer may encode the same fields differently: the       *)
(* receiver gets the sender's body with one more field after it, unknown   *)
(* or repeated in a longer encoding, and a tag computed over these bytes.  *)
(* The message is then read through its accessors, wrapped and verified,   *)
(* any number of times.                                                    *)
(***************************************************************************)
\* impl AsRef<[u8]> for the four message types
as_ref(self) == self.serialized

\* Field 3 (previous_counter, iteration) with the value 300 on three bytes.
RepeatedField3 == <<24, 172, 130, 0>>
NonCanonicalTails == {UnknownField(1), RepeatedField3}
Resigned == [how |-> "resigned", byte |-> 0, bit |-> 0]

TagLength(k) == IF k = "Signal" THEN MAC_LENGTH ELSE SIGNATURE_LENGTH

\* The tag the sender computes over the bytes head.
TagOver(head, rnd) ==
    IF kind = "Signal"
    THEN compute_mac(args.sender_identity_key, args.receiver_identity_key,
                     args.mac_key, head).val
    ELSE calculate_signature(args.signature_key, head, rnd)

ParseResigned ==
    /\ pc = "built"
    /\ kind \in {"Signal", "SenderKey"}
    /\ built.ok
    /\ \E tail \in NonCanonicalTails, rnd \in Randomness :
          \E head \in {Slice(built.val.serialized, 0,
                               Len(built.val.serialized) - TagLength(kind)) \o tail} :
              Parse(kind, Resigned, head \o TagOver(head, rnd))

UseAccessors ==
    /\ pc \in Operable
    /\ Subject.ok
    /\ Call([on |-> Target, call |-> "accessors"],
            Ok([message_version |-> Subject.val.message_version,
                serialized |-> serialized(Subject.val),
                as_ref |-> as_ref(Subject.val)]))

NextStored ==
    \/ NewSignalMessage({Version3}, MacKeys, {KeyOf(1)}, {300}, {300},
                        {CiphertextOf(MaxCiphertextLen)})
    \/ NewSenderKeyMessage({UuidOf(1)}, {300}, {CiphertextOf(MaxCiphertextLen)})
    \/ ParseSerialized
    \/ ParseTampered
    \/ ParseResigned
    \/ UseAccessors
    \/ UseCiphertextMessage
    \/ VerifyMac
    \/ VerifySignature

SpecStored == Init /\ [][NextStored]_vars

(***************************************************************************)
(* Bounds.  Every message a constructor or a parser returns, the inner     *)
(* message of a pre-key message included, may be handed to its verifier,   *)
(* with any keys.                                                          *)
(***************************************************************************)
\* PreKeySignalMessage::message
message(self) == self.message

VerifyMacOfReceived ==
    /\ pc \in Operable
    /\ kind \in {"Signal", "PreKey"}
    /\ Subject.ok
    /\ \E mac_key \in MacKeys, sender_identity_key \in Keys,
          receiver_identity_key \in {KeyOf(1)} :
          Verify([on |-> Target, mac_key |-> mac_key,
                  sender_identity_key |-> sender_identity_key,
                  receiver_identity_key |-> receiver_identity_key],
                 verify_mac(IF kind = "PreKey" THEN message(Subject.val)
                            ELSE Subject.val,
                            sender_identity_key, receiver_identity_key, mac_key))

NextBounds ==
    \/ ParseFramed
    \/ ParseCrafted
    \/ NewSignalMessage(MessageVersion, {MacKeyOf(1, MAC_KEY_LENGTH)}, {KeyOf(1)}, {0}, {0},
                        {<<>>, CiphertextOf(MaxCiphertextLen)})
    \/ NewPreKeySignalMessage
    \/ NewSenderKeyMessage({UuidOf(1)}, {0}, {<<>>, CiphertextOf(MaxCiphertextLen)})
    \/ VerifyMacOfReceived
    \/ VerifySignature

SpecBounds == Init /\ [][NextBounds]_vars

(***************************************************************************)
(* identity_key.rs.  An identity key wraps a public key; an identity key   *)
(* pair holds an identity key and a private key and is stored as a         *)
(* structure of two byte fields.  A private key is 32 bytes, clamped when  *)
(* it is generated and when it is deserialized, so every private key the   *)
(* program holds is clamped; it serializes as its 32 bytes.                *)
(***************************************************************************)
\* proto::storage::IdentityKeyPairStructure: two fields of bytes, left out
\* of the encoding when empty and empty when absent from it.
IdentityKeyPairStructureSchema ==
    (1 :> Field("public_key", "bytes")) @@ (2 :> Field("private_key", "bytes"))

BytesField(bytes) == IF bytes = <<>> THEN None ELSE Some(bytes)
FieldBytes(o) == IF IsSome(o) THEN Unwrap(o) ELSE <<>>

\* key[0] &= 0xF8; key[31] &= 0x7F; key[31] |= 0x40
Clamp(key) ==
    [i \in 1..Len(key) |->
        IF i = 1 THEN key[i] - (key[i] % 8)
        ELSE IF i = KEY_LENGTH THEN (key[i] % 64) + 64
        ELSE key[i]]

PrivateKey_serialize(key) == key

PrivateKey_deserialize(value) ==
    IF Len(value) # KEY_LENGTH THEN Err("BadKeyLength", Len(value))
    ELSE Ok(Clamp(value))

PrivateKey_key_type(key) == "Djb"

\* IdentityKey::new
IdentityKey_new(public_key) == [public_key |-> public_key]

\* IdentityKey::serialize
IdentityKey_serialize(self) == PublicKey_serialize(self.public_key)

\* IdentityKey::decode, and TryFrom<&[u8]> for IdentityKey, which calls it
IdentityKey_decode(value) ==
    IF ~PublicKey_try_from(value).ok THEN PublicKey_try_from(value)
    ELSE Ok([public_key |-> PublicKey_try_from(value).val])

\* IdentityKeyPair::new
IdentityKeyPair_new(identity_key, private_key) ==
    [identity_key |-> identity_key, private_key |-> private_key]

\* IdentityKeyPair::serialize with the two fields exchanged.
IdentityKeyPair_serialize_exchanged(self) ==
    ProtoEncode(IdentityKeyPairStructureSchema,
                [public_key |-> BytesField(PrivateKey_serialize(self.private_key)),
                 private_key |-> BytesField(IdentityKey_serialize(self.identity_key))])

\* IdentityKeyPair::serialize
IdentityKeyPair_serialize(self) ==
    ProtoEncode(IdentityKeyPairStructureSchema,
                [public_key |-> BytesField(IdentityKey_serialize(self.identity_key)),
                 private_key |-> BytesField(PrivateKey_serialize(self.private_key))])

\* impl TryFrom<&[u8]> for IdentityKeyPair
IdentityKeyPair_try_from(value) ==
    Bind(ProtoDecode(IdentityKeyPairStructureSchema, value), LAMBDA decoded :
        IF ~decoded.ok THEN decoded
        ELSE LET structure == decoded.val
                 identity_key == IdentityKey_decode(FieldBytes(structure.public_key))
                 private_key == PrivateKey_deserialize(FieldBytes(structure.private_key))
             IN IF ~identity_key.ok THEN identity_key
                ELSE IF ~private_key.ok THEN private_key
                ELSE Ok([identity_key |-> identity_key.val,
                         private_key |-> private_key.val]))

\* The private keys the program can hold, and with them the public keys of
\* other parties and the pair's own.
PrivateKeySeeds == 0..(NumKeys + 5)
PrivateKeys == {Clamp(KeyOf(n)) : n \in PrivateKeySeeds}

NewIdentityKeyPair ==
    /\ pc = "start"
    /\ \E private_key \in PrivateKeys :
          \E public_key \in Keys \cup {PrivateKey_public_key(private_key)} :
              Construct("IdentityKeyPair", NoArgs,
                        Ok(IdentityKeyPair_new(IdentityKey_new(public_key), private_key)))

\* The stored pair is read back.
ReadIdentityKeyPair ==
    /\ pc = "built"
    /\ kind = "IdentityKeyPair"
    /\ pc' = "parsed"
    /\ origin' = Exact
    /\ input' = IdentityKeyPair_serialize(built.val)
    /\ parsed' = IdentityKeyPair_try_from(IdentityKeyPair_serialize(built.val))
    /\ UNCHANGED <<kind, args, built, vargs, verified>>

\* Stored bytes of any content: each field empty, well-formed or malformed,
\* the private key as a peer that does not clamp would have written it.
StoredStructures ==
    [public_key : {None, Some(GoodKey), Some(BadTypeKey), Some(ShortKey), Some(LongKey)},
     private_key : {None, Some(Tail(KeyOf(1))), Some(KeyOf(1) \o <<9>>)}
                   \cup {Some(KeyOf(n)) : n \in PrivateKeySeeds}]

ReadStoredBytes ==
    /\ pc = "start"
    /\ \E st \in StoredStructures, padding \in Paddings :
          /\ pc' = "parsed"
          /\ kind' = "IdentityKeyPair"
          /\ origin' = [how |-> "crafted", st |-> st, padded |-> padding # <<>>]
          /\ input' = ProtoEncode(IdentityKeyPairStructureSchema, st) \o padding
          /\ parsed' = IdentityKeyPair_try_from(
                           ProtoEncode(IdentityKeyPairStructureSchema, st) \o padding)
          /\ UNCHANGED <<args, built, vargs, verified>>

NextIdentity ==
    \/ NewIdentityKeyPair
    \/ ReadIdentityKeyPair
    \/ ReadStoredBytes

SpecIdentity == Init /\ [][NextIdentity]_vars

(***************************************************************************)
(* Properties.                                                             *)
(***************************************************************************)
\* The parser's result on the sender's own bytes.
ParsedOwnBytes(k) == pc = "parsed" /\ kind = k /\ origin.how = "exact"

\* C1: every SignalMessage that SignalMessage::new returns parses back,
\* from its serialized bytes, to a message equal to it in message_version,
\* sender_ratchet_key, counter, previous_counter, ciphertext and serialized.
C1_SignalRoundTrip ==
    ParsedOwnBytes("Signal") => parsed.ok /\ parsed.val = built.val

\* C2: every PreKeySignalMessage that PreKeySignalMessage::new returns, with
\* pre_key_id absent or present, parses back from its serialized bytes to a
\* message equal to it in every field, the inner message's fields and bytes
\* included, an absent pre_key_id staying absent.
C2_PreKeyRoundTrip ==
    ParsedOwnBytes("PreKey") => parsed.ok /\ parsed.val = built.val

\* C3: every SenderKeyMessage that SenderKeyMessage::new returns parses back
\* from its serialized bytes to a message equal to it in message_version,
\* distribution_id, chain_id, iteration, ciphertext and serialized.
C3_SenderKeyRoundTrip ==
    ParsedOwnBytes("SenderKey") =>
        /\ parsed.ok
        /\ parsed.val.message_version = built.val.message_version
        /\ parsed.val.distribution_id = built.val.distribution_id
        /\ parsed.val.chain_id = built.val.chain_id
        /\ parsed.val.iteration = built.val.iteration
        /\ parsed.val.ciphertext = built.val.ciphertext
        /\ parsed.val.serialized = built.val.serialized

C3_Witness ==
    /\ ParsedOwnBytes("SenderKey")
    /\ parsed.ok
    /\ built.val.chain_id = 300
    /\ built.val.iteration = 2147483647
    /\ Len(built.val.ciphertext) = MaxCiphertextLen

\* C4: every SenderKeyDistributionMessage built with a 32-byte chain key and
\* a valid signing public key parses back from its serialized bytes to
\* identical distribution_id, chain_id, iteration, chain_key, signing_key
\* and serialized.
C4_DistributionRoundTrip ==
    (ParsedOwnBytes("Distribution") /\ Len(args.chain_key) = CHAIN_KEY_LENGTH) =>
        /\ parsed.ok
        /\ parsed.val.distribution_id = built.val.distribution_id
        /\ parsed.val.chain_id = built.val.chain_id
        /\ parsed.val.iteration = built.val.iteration
        /\ parsed.val.chain_key = built.val.chain_key
        /\ parsed.val.signing_key = built.val.signing_key
        /\ parsed.val.serialized = built.val.serialized

C4_Witness ==
    /\ ParsedOwnBytes("Distribution")
    /\ parsed.ok
    /\ built.val.chain_id = 1
    /\ built.val.iteration = 300
    /\ built.val.chain_key # built.val.signing_key

\* The minimum lengths the claims name, per kind.
StatedMinLength(k) ==
    IF k = "Signal" THEN 9
    ELSE IF k = "PreKey" THEN 1
    ELSE IF k = "SenderKey" THEN 1 + SIGNATURE_LENGTH
    ELSE 1 + 32 + 32

IsVersionError(r) ==
    IsErr(r, "LegacyCiphertextVersion") \/ IsErr(r, "UnrecognizedCiphertextVersion")

\* C5: in each of the four parsers, for every buffer that passes the kind's
\* length check, a first byte whose high nibble is below 3 yields
\* LegacyCiphertextVersion carrying the nibble, one above 3 yields
\* UnrecognizedCiphertextVersion carrying the nibble, and only a nibble of 3
\* goes on to the body (the result is then the body's, which for a pre-key
\* message may be the inner message's version error): no message is
\* returned for another version.
C5_StrictVersion ==
    (pc = "parsed" /\ Len(input) >= StatedMinLength(kind)) =>
        LET nibble == input[1] \div 16
        IN /\ nibble < 3 => IsErrWith(parsed, "LegacyCiphertextVersion", nibble)
           /\ nibble > 3 => IsErrWith(parsed, "UnrecognizedCiphertextVersion", nibble)
           /\ (nibble = 3 /\ kind # "PreKey") => ~IsVersionError(parsed)
           /\ parsed.ok => nibble = 3 /\ parsed.val.message_version = 3

C5_Witness ==
    /\ pc = "parsed"
    /\ kind = "Distribution"
    /\ input = <<2 * 16 + 3>> \o Tail(SampleDistribution.serialized)
    /\ parsed = Err("LegacyCiphertextVersion", 2)

\* C6: in each parser a buffer shorter than the kind's minimum (9, 1,
\* 1 + SIGNATURE_LENGTH, 1 + 32 + 32) yields CiphertextMessageTooShort
\* carrying the buffer's length, whatever its bytes: also when its version
\* nibble is not the current one.
C6_MinimumLength ==
    (pc = "parsed" /\ Len(input) < StatedMinLength(kind)) =>
        IsErrWith(parsed, "CiphertextMessageTooShort", Len(input))

C6_Witness ==
    /\ pc = "parsed"
    /\ kind = "Signal"
    /\ Len(input) = 8
    /\ input[1] \div 16 = 2
    /\ parsed = Err("CiphertextMessageTooShort", 8)

\* The verifier was given the keys the message was built with.
HonestMacKeys ==
    /\ vargs.mac_key = args.mac_key
    /\ vargs.sender_identity_key = args.sender_identity_key
    /\ vargs.receiver_identity_key = args.receiver_identity_key

\* The parsed buffer is the built one with one bit inverted after the
\* version byte: in the body or in the trailing tag.
OneBitTampered == origin.how = "flip" /\ origin.byte > 1

\* C7: a message built with a 32-byte key K and identity keys S and R
\* verifies (Ok(true)) under S, R and K, and every message parsed from its
\* bytes with one bit of the body or of the trailing 8 bytes inverted
\* verifies to Ok(false) under them, never to an error.
C7_MacTamper ==
    (pc = "verified" /\ kind = "Signal" /\ HonestMacKeys) =>
        /\ vargs.on = "built" => verified = Ok(TRUE)
        /\ (vargs.on = "parsed" /\ OneBitTampered) => verified = Ok(FALSE)

C7_Witness ==
    /\ pc = "verified"
    /\ kind = "Signal"
    /\ HonestMacKeys
    /\ vargs.on = "parsed"
    /\ OneBitTampered
    /\ origin.byte <= Len(input) - MAC_LENGTH
    /\ parsed.val.counter # built.val.counter
    /\ verified = Ok(FALSE)

\* C8: with a MAC key of a length n other than 32, SignalMessage::new and
\* verify_mac return InvalidMacKeyLength(n); with a 32-byte key verify_mac
\* returns a boolean on every message, never an error.
C8_MacKeyLength ==
    /\ (pc = "built" /\ kind = "Signal") =>
           IF Len(args.mac_key) # 32
           THEN IsErrWith(built, "InvalidMacKeyLength", Len(args.mac_key))
           ELSE built.ok
    /\ (pc = "verified" /\ kind = "Signal") =>
           IF Len(vargs.mac_key) # 32
           THEN IsErrWith(verified, "InvalidMacKeyLength", Len(vargs.mac_key))
           ELSE verified.ok /\ verified.val \in BOOLEAN

C8_Witness ==
    /\ pc = "verified"
    /\ kind = "Signal"
    /\ Len(vargs.mac_key) = 33
    /\ verified = Err("InvalidMacKeyLength", 33)

\* C9: a SenderKeyMessage built with private key k verifies (Ok(())) under
\* the public key of k, and every message parsed from its bytes with one bit
\* of the body or of the trailing signature inverted fails verification
\* under that key with SignatureValidationFailed; verification never
\* answers with a boolean false.
C9_SignatureTamper ==
    (pc = "verified" /\ kind = "SenderKey") =>
        /\ verified.ok => verified.val = <<>>
        /\ ~verified.ok => IsErrWith(verified, "SignatureValidationFailed", 0)
        /\ vargs.signature_key = PrivateKey_public_key(args.signature_key) =>
               /\ vargs.on = "built" => verified.ok
               /\ (vargs.on = "parsed" /\ OneBitTampered) => ~verified.ok

C9_Witness ==
    /\ pc = "verified"
    /\ kind = "SenderKey"
    /\ vargs.signature_key = PrivateKey_public_key(args.signature_key)
    /\ vargs.on = "parsed"
    /\ OneBitTampered
    /\ origin.byte <= Len(input) - SIGNATURE_LENGTH
    /\ parsed.val.iteration # built.val.iteration
    /\ verified = Err("SignatureValidationFailed", 0)

\* The fields the protocol treats as mandatory, per kind.
MandatoryFields(k) ==
    IF k = "Signal" THEN {"ratchet_key", "counter", "ciphertext"}
    ELSE IF k = "PreKey"
    THEN {"signed_pre_key_id", "base_key", "identity_key", "message"}
    ELSE IF k = "SenderKey"
    THEN {"distribution_uuid", "chain_id", "iteration", "ciphertext"}
    ELSE {"distribution_uuid", "chain_id", "iteration", "chain_key", "signing_key"}

\* A crafted buffer that passes the length check with a mandatory field absent.
LacksMandatoryField ==
    /\ pc = "parsed"
    /\ origin.how = "crafted"
    /\ Len(input) >= StatedMinLength(kind)
    /\ \E f \in MandatoryFields(kind) : origin.st[f] = None

\* C10: for a buffer that passes the length and version checks and whose
\* body decodes, each parser returns InvalidProtobufEncoding whenever a
\* mandatory field is absent.
C10_MandatoryFields ==
    LacksMandatoryField => IsErrWith(parsed, "InvalidProtobufEncoding", 0)

\* C11: for every CiphertextMessage value, message_type() is 2 (Whisper)
\* exactly when it holds a SignalMessage, 3 (PreKey) exactly when it holds a
\* PreKeySignalMessage and 7 (SenderKey) exactly when it holds a
\* SenderKeyMessage, no other discriminant is returned, and serialize()
\* returns exactly the stored serialized bytes of the held message.
C11_UnionDispatch ==
    (pc = "called" /\ vargs.call = "CiphertextMessage") =>
        /\ verified.ok
        /\ verified.val.message_type \in {2, 3, 7}
        /\ verified.val.message_type = 2 <=> vargs.self.variant = "SignalMessage"
        /\ verified.val.message_type = 3 <=> vargs.self.variant = "PreKeySignalMessage"
        /\ verified.val.message_type = 7 <=> vargs.self.variant = "SenderKeyMessage"
        /\ verified.val.serialize = vargs.self.x.serialized
        /\ vargs.self.x = (IF vargs.on = "built" THEN built.val ELSE parsed.val)

C11_Witness ==
    /\ pc = "called"
    /\ vargs.call = "CiphertextMessage"
    /\ vargs.on = "parsed"
    /\ vargs.self.variant = "PreKeySignalMessage"
    /\ verified.val.message_type = 3
    /\ verified.val.serialize = input

\* C12: every message returned by one of the four constructors, for every
\* argument the constructor accepts, has message_version equal to the
\* current version (3) and a first serialized byte whose high nibble is 3:
\* construction never produces the legacy version (2).
C12_OnlyCurrentVersionBuilt ==
    (pc = "built" /\ built.ok) =>
        /\ built.val.message_version = CIPHERTEXT_MESSAGE_CURRENT_VERSION
        /\ built.val.serialized[1] \div 16 = CIPHERTEXT_MESSAGE_CURRENT_VERSION

\* C13: SenderKeyDistributionMessage::new returns an error and no message
\* when chain_key is not exactly 32 bytes long, the constraint that
\* SenderKeyDistributionMessage::try_from enforces on parse.
C13_ChainKeyLengthOnBuild ==
    (pc = "built" /\ kind = "Distribution" /\ Len(args.chain_key) # CHAIN_KEY_LENGTH) =>
        ~built.ok

\* C14: the first serialized byte of every constructed message is
\* ((logical_version & 0xF) << 4) | CURRENT_VERSION: its low nibble is the
\* current version constant (3) whatever version is packed, its high nibble
\* is the logical version, and for sender-key and distribution messages the
\* byte is 0x33.
C14_VersionBytePacking ==
    (pc = "built" /\ built.ok) =>
        /\ built.val.serialized[1] % 16 = 3
        /\ built.val.serialized[1] \div 16 = built.val.message_version
        /\ kind \in {"SenderKey", "Distribution"} => built.val.serialized[1] = 51

C14_Witness ==
    /\ pc = "built"
    /\ kind = "PreKey"
    /\ built.ok
    /\ built.val.message_version = 2
    /\ built.val.message.message_version = 3
    /\ built.val.serialized[1] = 35

\* The verifier was given the key the message was signed for.
HonestKeys ==
    IF kind = "Signal" THEN HonestMacKeys
    ELSE vargs.signature_key = PrivateKey_public_key(args.signature_key)

\* What a step leaves true of the messages.
StoredBytesStep ==
    /\ (pc' = "parsed" /\ parsed'.ok) => parsed'.val.serialized = input'
    /\ pc' \in {"verified", "called"} =>
           /\ built' = built
           /\ parsed' = parsed
           /\ parsed.ok => parsed'.val.serialized = input
    /\ (pc' = "called" /\ vargs'.call = "accessors") =>
           /\ verified'.val.serialized = Subject.val.serialized
           /\ verified'.val.as_ref = Subject.val.serialized
    /\ (pc' = "called" /\ vargs'.call = "CiphertextMessage") =>
           verified'.val.serialize = Subject.val.serialized
    /\ (pc' = "verified" /\ vargs'.on = "parsed" /\ origin.how = "resigned"
        /\ HonestKeys') =>
           verified' = (IF kind = "Signal" THEN Ok(TRUE) ELSE Ok(<<>>))

\* C15: a message returned by a parser has serialized equal, byte for byte,
\* to the input buffer, not to a re-encoding of its fields; every later
\* operation on a message (accessors, as_ref, CiphertextMessage::serialize,
\* verify_mac, verify_signature, whatever it returns) leaves its bytes and
\* fields as they were; and verification is computed over serialized minus
\* the trailing tag, so a body in a non-canonical encoding verifies against
\* a tag computed over those exact bytes.
C15_StoredBytesAuthoritative == [][StoredBytesStep]_vars

C15_Witness ==
    /\ pc = "verified"
    /\ kind = "Signal"
    /\ vargs.on = "parsed"
    /\ origin.how = "resigned"
    /\ HonestMacKeys
    /\ input # built.val.serialized
    /\ Slice(input, Len(input) - MAC_LENGTH - 4, Len(input) - MAC_LENGTH) = RepeatedField3
    /\ parsed.val.previous_counter = built.val.previous_counter
    /\ parsed.val.serialized = input
    /\ verified = Ok(TRUE)

\* The error kinds of SignalProtocolError a parser can answer with.
ParseErrorKinds ==
    {"CiphertextMessageTooShort", "LegacyCiphertextVersion",
     "UnrecognizedCiphertextVersion", "UnrecognizedMessageVersion",
     "ProtobufDecodingError", "InvalidProtobufEncoding",
     "NoKeyTypeIdentifier", "BadKeyType", "BadKeyLength"}

\* The message is long enough for the verifier of its kind.
LongEnough(k, m) ==
    IF k = "Signal" THEN Len(m.serialized) >= 9
    ELSE IF k = "PreKey" THEN Len(m.message.serialized) >= 9
    ELSE IF k = "SenderKey" THEN Len(m.serialized) >= 1 + SIGNATURE_LENGTH
    ELSE TRUE

\* C16: on every buffer, the empty one included, each parser returns a
\* message or one error and never reads outside the buffer; every message
\* a constructor or a parser returns, the inner message of a pre-key
\* message included, is long enough for its verifier (a SignalMessage has
\* at least 9 bytes, a SenderKeyMessage at least 1 + SIGNATURE_LENGTH), so
\* verify_mac and verify_signature never slice out of bounds.
C16_NoOutOfBounds ==
    /\ pc \in {"parsed", "verified"} /\ parsed # Nothing =>
           /\ parsed # Panic
           /\ parsed.ok \/ parsed.err.kind \in ParseErrorKinds
           /\ parsed.ok => LongEnough(kind, parsed.val)
    /\ built.ok => LongEnough(kind, built.val)
    /\ pc = "verified" => verified # Panic

C16_Witness ==
    /\ pc = "verified"
    /\ kind = "PreKey"
    /\ vargs.on = "parsed"
    /\ origin.how = "crafted"
    /\ Len(parsed.val.message.serialized) < Len(input) - 2 * KEY_LENGTH
    /\ verified.ok

\* C17: for every IdentityKeyPair p, IdentityKeyPair::try_from of
\* p.serialize() succeeds and returns a pair with the same identity key and
\* a private key of the same key type and the same serialized bytes.
C17_IdentityKeyPairRoundTrip ==
    (pc = "parsed" /\ kind = "IdentityKeyPair" /\ origin.how = "exact") =>
        /\ parsed.ok
        /\ parsed.val.identity_key = built.val.identity_key
        /\ PrivateKey_key_type(parsed.val.private_key)
               = PrivateKey_key_type(built.val.private_key)
        /\ PrivateKey_serialize(parsed.val.private_key)
               = PrivateKey_serialize(built.val.private_key)

C17_Witness ==
    /\ pc = "parsed"
    /\ kind = "IdentityKeyPair"
    /\ origin.how = "exact"
    /\ parsed.ok
    /\ Len(input) = 2 + (KEY_LENGTH + 1) + 2 + KEY_LENGTH
    /\ built.val.identity_key.public_key # PrivateKey_public_key(built.val.private_key)
    /\ built.val.private_key # KeyOf(1)

\* The fields of each kind that hold a serialized public key.
KeyFields(k) ==
    IF k = "Signal" THEN {"ratchet_key"}
    ELSE IF k = "PreKey" THEN {"base_key", "identity_key"}
    ELSE IF k = "SenderKey" THEN {}
    ELSE {"signing_key"}

\* A crafted buffer one of whose key fields holds bytes that are no key.
CarriesMalformedKey ==
    /\ pc = "parsed"
    /\ origin.how = "crafted"
    /\ \E f \in KeyFields(kind) :
          /\ IsSome(origin.st[f])
          /\ ~PublicKey_try_from(Unwrap(origin.st[f])).ok

\* C18: in every parser the presence of all mandatory fields is checked
\* before any key bytes are validated: a body that decodes, lacks a
\* mandatory field and carries malformed key bytes yields
\* InvalidProtobufEncoding and not a key error, so too a pairwise body with
\* a malformed ratchet_key and no counter or no ciphertext.
C18_PresenceBeforeKeys ==
    (LacksMandatoryField /\ CarriesMalformedKey) =>
        parsed = InvalidProtobufEncoding

\* A crafted buffer of the given kind that passes the length check.
CraftedFor(k) ==
    /\ pc = "parsed"
    /\ kind = k
    /\ origin.how = "crafted"
    /\ Len(input) >= StatedMinLength(k)

\* The field is present in the crafted body with another length than n.
PresentWithOtherLength(f, n) ==
    IsSome(origin.st[f]) /\ Len(Unwrap(origin.st[f])) # n

\* The crafted body has every field, the named one apart, in its valid form.
ValidApartFrom(f) ==
    \A g \in DOMAIN origin.st \ {f} : origin.st[g] = SampleDistributionStructure[g]

\* C19: SenderKeyDistributionMessage::try_from returns
\* InvalidProtobufEncoding when chain_key is present but not of 32 bytes or
\* signing_key is present but not of 33 bytes, and checks these lengths
\* before it decodes the signing key: a signing key of a wrong length yields
\* InvalidProtobufEncoding and not a key error, while one of 33 bytes with
\* an invalid key type yields the key's error; a distribution_uuid that is
\* not of 16 bytes yields InvalidProtobufEncoding in the sender-key and in
\* the distribution parser.
C19_FixedLengthsOnParse ==
    /\ (CraftedFor("Distribution")
        /\ (PresentWithOtherLength("chain_key", 32)
            \/ PresentWithOtherLength("signing_key", 33))) =>
           parsed = InvalidProtobufEncoding
    /\ (CraftedFor("Distribution") /\ origin.st.signing_key = Some(BadTypeKey)
        /\ ValidApartFrom("signing_key")) =>
           parsed = Err("BadKeyType", 6)
    /\ ((CraftedFor("Distribution") \/ CraftedFor("SenderKey"))
        /\ PresentWithOtherLength("distribution_uuid", 16)) =>
           parsed = InvalidProtobufEncoding

C19_Witness ==
    /\ CraftedFor("Distribution")
    /\ origin.st.signing_key = Some(Tail(GoodKey))
    /\ ValidApartFrom("signing_key")
    /\ ~PublicKey_try_from(Tail(GoodKey)).ok
    /\ parsed = InvalidProtobufEncoding

\* The crafted pre-key body passes the envelope's own presence and key checks.
EnvelopeChecksPass ==
    /\ CraftedFor("PreKey")
    /\ \A f \in MandatoryFields("PreKey") : IsSome(origin.st[f])
    /\ \A f \in KeyFields("PreKey") : PublicKey_try_from(Unwrap(origin.st[f])).ok

\* C20: PreKeySignalMessage::try_from succeeds only if the bytes of its
\* message field are accepted by SignalMessage::try_from; when the
\* envelope's own length, version, decode, presence and key checks pass and
\* the inner bytes are rejected, the inner parser's error is the result,
\* unchanged (inner bytes shorter than 9 yield CiphertextMessageTooShort
\* with the inner length, an inner legacy nibble yields
\* LegacyCiphertextVersion under a current envelope); on success the inner
\* message's serialized bytes are the bytes of the message field.
C20_PreKeyDependsOnInner ==
    /\ (CraftedFor("PreKey") /\ parsed.ok) =>
           /\ IsSome(origin.st.message)
           /\ SignalMessage_try_from(Unwrap(origin.st.message)).ok
           /\ parsed.val.message = SignalMessage_try_from(Unwrap(origin.st.message)).val
           /\ parsed.val.message.serialized = Unwrap(origin.st.message)
    /\ EnvelopeChecksPass =>
           /\ parsed.ok <=> SignalMessage_try_from(Unwrap(origin.st.message)).ok
           /\ ~parsed.ok => parsed = SignalMessage_try_from(Unwrap(origin.st.message))
           /\ Len(Unwrap(origin.st.message)) < 9 =>
                  parsed = Err("CiphertextMessageTooShort", Len(Unwrap(origin.st.message)))
           /\ origin.st.message = Some(LegacySignal.serialized) =>
                  parsed = Err("LegacyCiphertextVersion", 2)

C20_Witness ==
    /\ EnvelopeChecksPass
    /\ input[1] \div 16 = 3
    /\ origin.st.message = Some(LegacySignal.serialized)
    /\ parsed = Err("LegacyCiphertextVersion", 2)

====
